---------------------------- MODULE Spec2Model ----------------------------
(***************************************************************************)
(* A model of janus-token (src/index.js): the TokenGenerator, its feature  *)
(* tests, its training store and its create / decode / compare /           *)
(* calculate / train operations.                                           *)
(*                                                                         *)
(* JavaScript strings are sequences of one-character strings.  A value     *)
(* that may be undefined is a record [def, str]: def = FALSE is undefined. *)
(* Numbers that are fractions in the code (the feature signals) are kept   *)
(* as exact fractions [num, den]; integrity scores are kept in thousandths *)
(* (0 .. 1000 for 0.0 .. 1.0).  The delimiter character U+2730 is written  *)
(* "*" here: it is one character that occurs in no header value.           *)
(***************************************************************************)
EXTENDS Integers, Sequences, FiniteSets, TLC

VARIABLES trainingData, initialData, submitted, calls, uuids, lastDecode,
          request0

vars == <<trainingData, initialData, submitted, calls, uuids, lastDecode,
          request0>>

-----------------------------------------------------------------------------
(* Bounds of the model.                                                    *)

MaxCalls == 1
MaxTrain == 1
MaxPairCalls == 2
MaxFeatureCalls == 1

-----------------------------------------------------------------------------
(* JavaScript values and string primitives.                                *)

Missing == [def |-> FALSE, str |-> <<>>]
S(s) == [def |-> TRUE, str |-> s]

\* String(undefined), as string concatenation produces it.
Undef == <<"u", "n", "d", "e", "f", "i", "n", "e", "d">>

\* A value in a boolean position: undefined and '' are falsy.
Truthy(v) == v.def /\ v.str # <<>>

\* A value in a string concatenation.
ToStr(v) == IF v.def THEN v.str ELSE Undef

Min2(a, b) == IF a <= b THEN a ELSE b
Min3(a, b, c) == Min2(a, Min2(b, c))
MinOf(set) == CHOOSE x \in set : \A y \in set : x <= y
MaxOf(set) == CHOOSE x \in set : \A y \in set : y <= x
Range(s) == {s[i] : i \in DOMAIN s}

\* s.substr(0, n)
Substr0(s, n) == SubSeq(s, 1, Min2(n, Len(s)))

\* s.trim()
Trim(s) ==
    LET keep == {i \in DOMAIN s : s[i] # " "}
    IN  IF keep = {} THEN <<>> ELSE SubSeq(s, MinOf(keep), MaxOf(keep))

\* s.indexOf(c) !== -1, for a one-character c
Contains(s, c) == c \in Range(s)

UpperLetters == <<"A", "B", "C", "D", "E", "F", "G", "H", "I", "J", "K", "L", "M",
                  "N", "O", "P", "Q", "R", "S", "T", "U", "V", "W", "X", "Y", "Z">>
LowerLetters == <<"a", "b", "c", "d", "e", "f", "g", "h", "i", "j", "k", "l", "m",
                  "n", "o", "p", "q", "r", "s", "t", "u", "v", "w", "x", "y", "z">>
Digits == {"0", "1", "2", "3", "4", "5", "6", "7", "8", "9"}

IsLetter(c) == c \in Range(UpperLetters) \cup Range(LowerLetters)

LowerChar(c) ==
    IF c \in Range(UpperLetters)
    THEN LowerLetters[CHOOSE i \in DOMAIN UpperLetters : UpperLetters[i] = c]
    ELSE c

ToLower(s) == [i \in DOMAIN s |-> LowerChar(s[i])]

-----------------------------------------------------------------------------
(* Regular expressions: the three shapes the module's defaults have, and   *)
(* undefined.  A pattern is [kind, words, min].                            *)

\* /w1|w2|.../gi : an alternation of literal words, letter case ignored.
AnyOfIgnoreCase(words) == [kind |-> "alt", words |-> words, min |-> 0]
\* /[a-zA-Z]{n,m}\-?/ : a run of at least n letters (the rest is optional).
LetterRun(n) == [kind |-> "letters", words |-> {}, min |-> n]
\* No pattern at all: the value of a property that is not there.
UndefinedPattern == [kind |-> "undefined", words |-> {}, min |-> 0]

\* String.prototype.search: the 0-based index of the first match, or -1.
\* search(undefined) is search(new RegExp()), which matches the empty string
\* at index 0 of every string.
Search(s, pat) ==
    IF pat.kind = "undefined" THEN 0
    ELSE LET low == ToLower(s)
             hits == IF pat.kind = "alt"
                     THEN {i \in DOMAIN s : \E w \in pat.words :
                              /\ i + Len(w) - 1 <= Len(s)
                              /\ SubSeq(low, i, i + Len(w) - 1) = w}
                     ELSE {i \in DOMAIN s :
                              /\ i + pat.min - 1 <= Len(s)
                              /\ \A k \in 0 .. pat.min - 1 : IsLetter(s[i + k])}
         IN  IF hits = {} THEN -1 ELSE MinOf(hits) - 1

-----------------------------------------------------------------------------
(* Module-level defaults, src/index.js lines 8-13.                         *)

blank == <<>>
defaultDelimit == <<"*">>
defaultBotMatch ==
    AnyOfIgnoreCase({<<"b", "o", "t">>, <<"c", "r", "a", "w", "l", "e", "r">>,
                     <<"l", "i", "n", "k">>, <<"s", "p", "i", "d", "e", "r">>,
                     <<"s", "p", "y", "d", "e", "r">>,
                     <<"p", "h", "a", "n", "t", "o", "m">>})
defaultBrowserMatch ==
    AnyOfIgnoreCase({<<"c", "h", "r", "o", "m", "e">>, <<"m", "s", "i", "e">>,
                     <<"s", "a", "f", "a", "r", "i">>,
                     <<"m", "o", "z", "i", "l", "l", "a">>,
                     <<"o", "p", "e", "r", "a">>})
defaultLanguageMatch == LetterRun(2)
defaultIdealRequestChain ==
    <<"1", ".", "1", "*", "g", "z", "i", "p", ",", " ", "d", "e", "f", "l", "a",
      "t", "e", "*", "a", "p", "p", "l", "i", "c", "a", "t", "i", "o", "n", "/",
      "j", "s", "o", "n", "*", "k", "e", "e", "p", "-", "a", "l", "i", "v", "e",
      "*", "I", "P", "v", "4", "*", "4", "4", "3", "*">>

-----------------------------------------------------------------------------
(* Exact fractions.                                                        *)

Frac(n, d) == [num |-> n, den |-> d]
Zero == Frac(0, 1)
One == Frac(1, 1)
FracEq(a, b) == a.num * b.den = b.num * a.den
FracLeq(a, b) == a.num * b.den <= b.num * a.den
InUnitInterval(a) == FracLeq(Zero, a) /\ FracLeq(a, One)
\* The fraction in thousandths, rounded down.
Milli(a) == (1000 * a.num) \div a.den

\* (b) & 1 for a boolean b
Bit(b) == IF b THEN 1 ELSE 0

-----------------------------------------------------------------------------
(* The feature tests, src/index.js lines 22-62.                            *)

\* userAgentTest(agent, botMatch, browserMatch)
userAgentTest(agent, botMatch, browserMatch) ==
    IF ~agent.def \/ Trim(agent.str) = <<>> THEN Zero
    ELSE Frac(  Bit(Search(agent.str, botMatch) = -1)
              + Bit(Search(agent.str, browserMatch) # -1)
              + Bit(Contains(agent.str, "."))
              + Bit(Contains(agent.str, "("))
              + Bit(Contains(agent.str, ")"))
              + Bit(Contains(agent.str, "/")), 6)

\* evaluateLanguage(language, languageMatch)
evaluateLanguage(language, languageMatch) ==
    IF ~language.def \/ Trim(language.str) = <<>> THEN Zero
    ELSE Frac(Bit(Search(language.str, languageMatch) # -1), 1)

\* url.parse(referer), as far as evaluateReferer reads its result, in the
\* steps of the parser: the protocol (lower-cased, with its colon), whether
\* "//" follows it, and, where a host is parsed, the authority up to the first
\* "/", "?" or "#", split into auth (before the last "@"), host and port (the
\* digits after the last ":").
SlashedOnly == {<<"h", "t", "t", "p", ":">>, <<"h", "t", "t", "p", "s", ":">>,
                <<"f", "t", "p", ":">>, <<"f", "i", "l", "e", ":">>}

\* Where the protocol's colon is; 0 when the string starts with no protocol.
protocolEnd(s) ==
    LET colons == {i \in DOMAIN s :
                      /\ s[i] = ":"
                      /\ i > 1
                      /\ \A k \in 1 .. i - 1 :
                            IsLetter(s[k]) \/ s[k] \in Digits \cup {".", "+", "-"}}
    IN  IF colons = {} THEN 0 ELSE MinOf(colons)

hasSlashes(rest) == Len(rest) >= 2 /\ rest[1] = "/" /\ rest[2] = "/"

\* The part of body before its first "/", "?" or "#".
authorityOf(body) ==
    LET stops == {i \in DOMAIN body : body[i] \in {"/", "?", "#"}}
    IN  IF stops = {} THEN body ELSE SubSeq(body, 1, MinOf(stops) - 1)

\* Where the last "@" of the authority is; 0 when there is none.
lastAt(authority) ==
    LET ats == {i \in DOMAIN authority : authority[i] = "@"}
    IN  IF ats = {} THEN 0 ELSE MaxOf(ats)

portOf(hostport) ==
    LET pcs == {i \in DOMAIN hostport :
                   /\ hostport[i] = ":"
                   /\ i < Len(hostport)
                   /\ \A k \in i + 1 .. Len(hostport) : hostport[k] \in Digits}
    IN  IF pcs = {} THEN Missing
        ELSE S(SubSeq(hostport, MinOf(pcs) + 1, Len(hostport)))

urlParts(protocol, slashes, parseHost, auth, hostport) ==
    [protocol |-> protocol,
     slashes |-> slashes,
     auth |-> IF parseHost THEN auth ELSE Missing,
     host |-> IF parseHost /\ hostport # <<>> THEN S(ToLower(hostport)) ELSE Missing,
     port |-> IF parseHost THEN portOf(hostport) ELSE Missing]

urlHost(protocol, slashes, authority, at) ==
    urlParts(protocol, slashes,
             slashes \/ (protocol.def /\ protocol.str \notin SlashedOnly),
             IF at > 0 THEN S(SubSeq(authority, 1, at - 1)) ELSE Missing,
             SubSeq(authority, at + 1, Len(authority)))

urlAuthority(protocol, slashes, authority) ==
    urlHost(protocol, slashes, authority, lastAt(authority))

urlRest(protocol, rest) ==
    urlAuthority(protocol, hasSlashes(rest),
                 authorityOf(IF hasSlashes(rest) THEN SubSeq(rest, 3, Len(rest))
                             ELSE rest))

urlProtocol(s, pEnd) ==
    urlRest(IF pEnd > 0 THEN S(ToLower(SubSeq(s, 1, pEnd))) ELSE Missing,
            SubSeq(s, pEnd + 1, Len(s)))

urlTrimmed(s) == urlProtocol(s, protocolEnd(s))

urlParse(referer) == urlTrimmed(Trim(referer))

\* The test of line 61 on the parsed referer.
refererTest(parts) ==
    /\ parts.protocol.def
    /\ parts.protocol.str \in {<<"h", "t", "t", "p", ":">>,
                               <<"h", "t", "t", "p", "s", ":">>}
    /\ parts.slashes
    /\ ~parts.auth.def
    /\ parts.host.def
    /\ ~parts.port.def

\* evaluateReferer(referer)
evaluateReferer(referer) ==
    IF ~referer.def \/ Trim(referer.str) = <<>> THEN Zero
    ELSE Frac(Bit(refererTest(urlParse(referer.str))), 1)

-----------------------------------------------------------------------------
(* The edit distance that levenshtein.getAsync(a, b, cb) hands to cb:      *)
(* insertions, deletions and substitutions at unit cost, computed row by   *)
(* row.  A row holds the distances from a prefix of a to every prefix of b *)
(* (row[j + 1] is the distance to the first j characters).                 *)

\* The row of a's first i characters (the last being ch) from the row prev of
\* its first i - 1, cell by cell: the least of a deletion (prev[j] + 1), an
\* insertion (the cell before, plus 1) and a substitution (prev[j - 1] + cost).
RECURSIVE levRow(_, _, _, _)
levRow(prev, ch, b, acc) ==
    IF Len(acc) = Len(b) + 1 THEN acc
    ELSE LET j == Len(acc)
         IN  levRow(prev, ch, b,
                    Append(acc, Min3(prev[j + 1] + 1, acc[j] + 1,
                                     prev[j] + (IF ch = b[j] THEN 0 ELSE 1))))

\* The rows in turn, each computed in full before the next one is asked for.
RECURSIVE levRows(_, _, _, _)
levRows(a, b, i, prev) ==
    IF i > Len(a) THEN prev[Len(b) + 1]
    ELSE LET row == levRow(prev, a[i], b, <<i>>)
         IN  CASE Len(row) = Len(b) + 1 -> levRows(a, b, i + 1, row)

levenshtein(a, b) == levRows(a, b, 1, [j \in 1 .. Len(b) + 1 |-> j - 1])

-----------------------------------------------------------------------------
(* The generator, src/index.js lines 94-109, constructed as in             *)
(* src/test.js line 13: new TokenGenerator(trainingData, 'test',           *)
(* 'localhost', 'localhost').  Everything but trainingData is set once;    *)
(* trainingData is the variable of that name.                              *)

generator ==
    [jwtConfig |-> [secret |-> "test", algorithm |-> "HS256",
                    issuer |-> "localhost", audience |-> "localhost"],
     delimit |-> defaultDelimit,
     botMatch |-> defaultBotMatch,
     browserMatch |-> defaultBrowserMatch,
     languageMatch |-> defaultLanguageMatch,
     idealRequestChain |-> defaultIdealRequestChain]

\* The object that is `this` inside the function handed to
\* levenshtein.getAsync (lines 237-250): the callback is a plain function that
\* the library calls as cb(err, distance), so its `this` is not the generator
\* and has no botMatch, browserMatch or languageMatch property.
callbackThis ==
    [botMatch |-> UndefinedPattern,
     browserMatch |-> UndefinedPattern,
     languageMatch |-> UndefinedPattern]

\* The request chain, lines 230-235.
requestChain(self, request) ==
       (IF Truthy(request.httpVersion)
        THEN Substr0(request.httpVersion.str, 5) ELSE blank) \o self.delimit
    \o (IF Truthy(request.acceptEncoding)
        THEN Substr0(request.acceptEncoding.str, 32) ELSE blank) \o self.delimit
    \o (IF Truthy(request.contentType)
        THEN Substr0(request.contentType.str, 32) ELSE blank) \o self.delimit
    \o (IF Truthy(request.connection)
        THEN Substr0(request.connection.str, 16) ELSE blank) \o self.delimit
    \o ToStr(request.remoteFamily) \o self.delimit
    \o ToStr(request.remotePort) \o self.delimit

\* The feature vector, lines 242-247, built inside the callback.
featureData(this, request, distance, chain) ==
    [userAgent |-> userAgentTest(request.userAgent, this.botMatch, this.browserMatch),
     language |-> evaluateLanguage(request.acceptLanguage, this.languageMatch),
     referer |-> evaluateReferer(request.referer),
     requestData |-> Frac(distance, Len(chain))]

-----------------------------------------------------------------------------
(* The scorer: brain.NeuralNetwork, lines 226-228 and 249.  The library is *)
(* not part of the repository.  What the model keeps of it: train fits a   *)
(* net on the examples it is given, there and then, starting from randomly *)
(* initialised weights (the seed); run is a function of the fitted net and *)
(* the input, with a value in [0, 1].  The fit is stood for by a weighted  *)
(* average of the examples' targets, nearer examples weighing more.        *)

Example(userAgent, language, referer, requestData, integrity) ==
    [input |-> [userAgent |-> userAgent, language |-> language,
                referer |-> referer, requestData |-> requestData],
     output |-> [integrity |-> integrity]]

Abs(x) == IF x < 0 THEN -x ELSE x

RECURSIVE SumOver(_, _, _)
SumOver(f, i, n) == IF i > n THEN 0 ELSE f[i] + SumOver(f, i + 1, n)

netTrain(examples, seed) == [examples |-> examples, seed |-> seed]

\* How far an example's input is from the input scored, and the weight the
\* example gets.
inputDistance(e, data) ==
      Abs(Milli(e.input.userAgent) - Milli(data.userAgent))
    + Abs(Milli(e.input.language) - Milli(data.language))
    + Abs(Milli(e.input.referer) - Milli(data.referer))
    + Abs(Milli(e.input.requestData) - Milli(data.requestData))
weight(e, data) == 10000 \div (10 + inputDistance(e, data))

clamp(x) == IF x < 0 THEN 0 ELSE IF x > 1000 THEN 1000 ELSE x
weightedMean(sum, total) == IF total = 0 THEN 500 ELSE sum \div total

netRun(net, data) ==
    clamp(weightedMean(
              SumOver([i \in DOMAIN net.examples |->
                          weight(net.examples[i], data)
                          * Milli(net.examples[i].output.integrity)],
                      1, Len(net.examples)),
              SumOver([i \in DOMAIN net.examples |-> weight(net.examples[i], data)],
                      1, Len(net.examples)))
          - 4 * net.seed)

-----------------------------------------------------------------------------
(* The identifier, lines 141-149.                                          *)

DigitChars == <<"0", "1", "2", "3", "4", "5", "6", "7", "8", "9">>
DigitValue(c) == (CHOOSE i \in DOMAIN DigitChars : DigitChars[i] = c) - 1

\* c.charCodeAt(0), for the characters of a network address
charCode(c) ==
    CASE c \in Digits -> 48 + DigitValue(c)
      [] c \in Range(UpperLetters) ->
            64 + (CHOOSE i \in DOMAIN UpperLetters : UpperLetters[i] = c)
      [] c \in Range(LowerLetters) ->
            96 + (CHOOSE i \in DOMAIN LowerLetters : LowerLetters[i] = c)
      [] c = "." -> 46
      [] c = ":" -> 58

\* String(n) for an integer n >= 0
RECURSIVE Decimal(_)
Decimal(n) ==
    IF n < 10 THEN <<DigitChars[n + 1]>>
    ELSE Append(Decimal(n \div 10), DigitChars[(n % 10) + 1])

\* The decimal numeral digits times k, with carry; digits are most
\* significant first.
RECURSIVE TimesFrom(_, _, _, _)
TimesFrom(digits, k, i, carry) ==
    IF i = 0 THEN (IF carry = 0 THEN <<>> ELSE Decimal(carry))
    ELSE LET v == DigitValue(digits[i]) * k + carry
         IN  Append(TimesFrom(digits, k, i - 1, v \div 10), DigitChars[(v % 10) + 1])
Times(digits, k) == TimesFrom(digits, k, Len(digits), 0)

\* The pepper, lines 142-145, as the string it becomes in the concatenation
\* of line 147: the product of the address's character codes.  The product is
\* kept exact, as the code's is while it stays below 2^53 (an address of
\* up to nine characters).
RECURSIVE pepperFrom(_, _, _)
pepperFrom(ip, i, pepper) ==
    IF i > Len(ip) THEN pepper
    ELSE pepperFrom(ip, i + 1, Times(pepper, charCode(ip[i])))
pepper(ip) == pepperFrom(ip, 1, <<"1">>)

\* uuid.v4(): the n-th value drawn; no two draws give the same value.
uuidV4(n) == <<"u", "u", "i", "d", "-">> \o Decimal(n)

\* crypto.createHash('sha256').update(input).digest('hex'): a string of 64
\* hexadecimal characters that stands for its input (no two inputs share a
\* digest).  A string value is [def, hex, str]; for a digest, str is the input.
DigestHexLength == 64
sha256Hex(input) == [def |-> TRUE, hex |-> TRUE, str |-> input]
Plain(s) == [def |-> TRUE, hex |-> FALSE, str |-> s]
NoString == [def |-> FALSE, hex |-> FALSE, str |-> <<>>]
StrLength(v) == IF v.hex THEN DigestHexLength ELSE Len(v.str)
\* !v is false
Present(v) == v.def /\ (v.hex \/ v.str # <<>>)

\* A derivation that leaves the uuid out.
NoUuidIdentifier(resourceId, ip, uuid) ==
    sha256Hex(resourceId.str \o pepper(ip) \o ip)
\* Line 147: the resource id, the pepper, the address and a fresh uuid,
\* concatenated and hashed.
deriveIdentifier(resourceId, ip, uuid) ==
    sha256Hex(resourceId.str \o pepper(ip) \o ip \o uuid)

-----------------------------------------------------------------------------
(* Tokens: jsonwebtoken's sign and verify, lines 74-79 and 174.  A token   *)
(* is its payload and a signature over the payload under the secret;       *)
(* verify accepts a token whose signature is the one the secret gives for  *)
(* its payload and whose issuer and audience are the configured ones.      *)

EmptyMap == [k \in {} |-> ""]
Properties(map) == [def |-> TRUE, map |-> map]
NoProperties == [def |-> FALSE, map |-> EmptyMap]

NoPayload == [identifier |-> NoString, properties |-> EmptyMap, iss |-> "", aud |-> ""]
hmac(secret, algorithm, payload) == [key |-> secret, alg |-> algorithm, over |-> payload]
NoToken == [payload |-> NoPayload, signature |-> hmac("", "", NoPayload)]

jwtSign(payload, secret, config) ==
    LET claims == [identifier |-> payload.identifier,
                   properties |-> payload.properties,
                   iss |-> config.issuer, aud |-> config.audience]
    IN  [payload |-> claims, signature |-> hmac(secret, config.algorithm, claims)]

jwtVerify(token, secret, config) ==
    LET ok == /\ token.signature = hmac(secret, config.algorithm, token.payload)
              /\ token.payload.iss = config.issuer
              /\ token.payload.aud = config.audience
    IN  [err |-> ~ok, decoded |-> IF ok THEN token.payload ELSE NoPayload]

\* createToken(identifier, properties, config), lines 74-79
createToken(identifier, properties, config) ==
    jwtSign([identifier |-> identifier,
             properties |-> IF properties.def THEN properties.map ELSE EmptyMap],
            config.secret, config)

\* obj[key] = value
SetKey(map, key, value) ==
    [k \in DOMAIN map \cup {key} |-> IF k = key THEN value ELSE map[k]]

\* A merge that lets the caller's version and integrity stand.
KeepCallersKeys(properties, version, result) ==
    LET own == IF properties.def THEN properties.map ELSE EmptyMap
        v == IF "version" \in DOMAIN own THEN own.version ELSE version
        r == IF "integrity" \in DOMAIN own THEN own.integrity ELSE result
    IN  Properties(SetKey(SetKey(own, "version", v), "integrity", r))
\* The properties create signs, lines 135-137 and 151-152.
mergeProperties(properties, version, result) ==
    LET own == IF properties.def THEN properties.map ELSE EmptyMap
    IN  Properties(SetKey(SetKey(own, "version", version), "integrity", result))

-----------------------------------------------------------------------------
(* The values the environment calls the generator with.                    *)

V11 == <<"1", ".", "1">>
VLong == <<"H", "T", "T", "P", "/", "1", ".", "1">>
EncIdeal == <<"g", "z", "i", "p", ",", " ", "d", "e", "f", "l", "a", "t", "e">>
EncLong ==
    <<"g", "z", "i", "p", ",", " ", "d", "e", "f", "l", "a", "t", "e", ",", " ",
      "b", "r", ",", " ", "c", "o", "m", "p", "r", "e", "s", "s", ",", " ", "i",
      "d", "e", "n", "t", "i", "t", "y">>
CtIdeal ==
    <<"a", "p", "p", "l", "i", "c", "a", "t", "i", "o", "n", "/", "j", "s", "o", "n">>
CtLong ==
    <<"a", "p", "p", "l", "i", "c", "a", "t", "i", "o", "n", "/", "x", "-", "w",
      "w", "w", "-", "f", "o", "r", "m", "-", "u", "r", "l", "e", "n", "c", "o",
      "d", "e", "d">>
ConnIdeal == <<"k", "e", "e", "p", "-", "a", "l", "i", "v", "e">>
ConnLong ==
    <<"k", "e", "e", "p", "-", "a", "l", "i", "v", "e", ",", " ", "U", "p", "g",
      "r", "a", "d", "e">>
IPv4 == <<"I", "P", "v", "4">>
P443 == <<"4", "4", "3">>
AgentFirefox ==
    <<"M", "o", "z", "i", "l", "l", "a", "/", "5", ".", "0", " ", "(", "W", "i",
      "n", "d", "o", "w", "s", " ", "N", "T", " ", "6", ".", "1", ")", " ", "G",
      "e", "c", "k", "o", "/", "2", "0", "1", "0", "0", "1", "0", "1", " ", "F",
      "i", "r", "e", "f", "o", "x", "/", "4", "3", ".", "0">>
AgentBot ==
    <<"G", "o", "o", "g", "l", "e", "b", "o", "t", "/", "2", ".", "1", " ", "(",
      "+", "h", "t", "t", "p", ":", "/", "/", "w", "w", "w", ".", "g", "o", "o",
      "g", "l", "e", ".", "c", "o", "m", "/", "b", "o", "t", ".", "h", "t", "m",
      "l", ")">>
AgentCurl == <<"c", "u", "r", "l">>
LangEnUS == <<"e", "n", "-", "U", "S">>
LangDigits == <<"1", "2">>
RefLocal ==
    <<"h", "t", "t", "p", ":", "/", "/", "l", "o", "c", "a", "l", "h", "o", "s", "t">>
RefAuth ==
    <<"h", "t", "t", "p", "s", ":", "/", "/", "u", ":", "p", "@", "h", "o", "s",
      "t", "/", "x">>
RefPort ==
    <<"h", "t", "t", "p", ":", "/", "/", "l", "o", "c", "a", "l", "h", "o", "s",
      "t", ":", "8", "0", "8", "0", "/">>
RefFtp == <<"f", "t", "p", ":", "/", "/", "h", "o", "s", "t">>
RefBare == <<"l", "o", "c", "a", "l", "h", "o", "s", "t">>
Loopback == <<"1", "2", "7", ".", "0", ".", "0", ".", "1">>

\* The request of src/test.js, lines 15-26.
TestRequest ==
    [httpVersion |-> S(V11), acceptEncoding |-> S(EncIdeal),
     contentType |-> S(CtIdeal), connection |-> S(ConnIdeal),
     remoteFamily |-> S(IPv4), remotePort |-> S(P443),
     userAgent |-> S(AgentFirefox), acceptLanguage |-> S(LangEnUS),
     referer |-> S(RefLocal), remoteAddress |-> S(Loopback)]

\* A request none of whose fields is there.
AnonymousRequest ==
    [httpVersion |-> Missing, acceptEncoding |-> Missing, contentType |-> Missing,
     connection |-> Missing, remoteFamily |-> Missing, remotePort |-> Missing,
     userAgent |-> Missing, acceptLanguage |-> Missing, referer |-> Missing,
     remoteAddress |-> Missing]

\* A request each of whose fields is the empty string.
EmptyRequest ==
    [httpVersion |-> S(blank), acceptEncoding |-> S(blank), contentType |-> S(blank),
     connection |-> S(blank), remoteFamily |-> S(blank), remotePort |-> S(blank),
     userAgent |-> S(blank), acceptLanguage |-> S(blank), referer |-> S(blank),
     remoteAddress |-> S(Loopback)]

\* Requests that differ from the test's in the fields of the chain, and
\* requests that differ from it in the three headers that are tested alone.
ChainRequests ==
    {[TestRequest EXCEPT !.httpVersion = v, !.acceptEncoding = e,
                         !.connection = c, !.remoteFamily = n[1],
                         !.remotePort = n[2]] :
        v \in {Missing, S(V11), S(VLong)},
        e \in {S(<<>>), S(EncLong)},
        c \in {S(ConnIdeal), S(ConnLong)},
        n \in {<<S(IPv4), S(P443)>>, <<S(IPv4), Missing>>, <<Missing, Missing>>}}
    \cup {[TestRequest EXCEPT !.contentType = t] : t \in {Missing, S(CtLong)}}
HeaderRequests ==
    {[TestRequest EXCEPT !.userAgent = a, !.acceptLanguage = l, !.referer = r] :
        a \in {Missing, S(<<" ">>), S(AgentFirefox), S(AgentBot), S(AgentCurl)},
        l \in {Missing, S(<<>>), S(LangEnUS), S(LangDigits)},
        r \in {Missing, S(RefLocal), S(RefAuth), S(RefPort), S(RefFtp), S(RefBare)}}
FeatureRequests == ChainRequests \cup HeaderRequests \cup {AnonymousRequest, EmptyRequest}

Requests == {TestRequest, AnonymousRequest}
TestResourceId ==
    Plain(<<"t", "e", "s", "t", "R", "e", "s", "o", "u", "r", "c", "e", "I", "d">>)
ResourceIds == {TestResourceId}
PropertyMaps ==
    {NoProperties, Properties([note |-> "n", version |-> "0.9", integrity |-> 0])}
Versions == {"1.0", "2.0"}
Integrities == {915, 916}
\* The outcomes of the random initialisation of a net's weights.
Seeds == {0, 1}

\* The examples of src/test.js, lines 8-11, and the arguments of the train
\* calls of lines 41 and 95.
testTrainingData ==
    <<Example(One, One, One, Zero, One),
      Example(Zero, Zero, Zero, One, Frac(1, 1000))>>
TrainArguments ==
    {Example(One, One, One, Frac(1, 2), Frac(1, 2)),
     Example(Zero, Zero, Zero, One, Frac(1, 1000))}

\* levenshtein.getAsync(ideal, chain, cb) hands cb the edit distance of its
\* two strings.  The distances to the chains of the requests above are
\* computed once and looked up.
KnownChains == {requestChain(generator, r) : r \in Requests \cup FeatureRequests}
DistanceTable ==
    [chain \in KnownChains |-> levenshtein(generator.idealRequestChain, chain)]
getDistance(ideal, chain) ==
    IF ideal = generator.idealRequestChain /\ chain \in KnownChains
    THEN DistanceTable[chain]
    ELSE levenshtein(ideal, chain)

-----------------------------------------------------------------------------
(* Calls.  A call of create, compare or calculate runs calculate's         *)
(* synchronous part (lines 226-237) and is then pending until the edit     *)
(* distance arrives; its record keeps what the callback closes over, what  *)
(* the callback did, and how often each continuation was invoked.          *)

Tolerance == 50

NoData == [userAgent |-> Zero, language |-> Zero, referer |-> Zero, requestData |-> Zero]

\* calculate(request, done, error) up to the call of levenshtein.getAsync
calculateSync(op, request, resourceId, properties, version, integrity, seed, store, trained) ==
    [op |-> op, request |-> request, resourceId |-> resourceId,
     properties |-> properties, version |-> version, integrity |-> integrity,
     net |-> netTrain(store, seed),
     chain |-> requestChain(generator, request),
     trainedBefore |-> trained, trainedByCallback |-> trained,
     status |-> "pending", err |-> FALSE, data |-> NoData, netRuns |-> 0,
     score |-> 0, successes |-> 0, failures |-> 0, identifier |-> NoString,
     token |-> NoToken, result |-> FALSE]

\* error(err)
onFailure(call) == [call EXCEPT !.status = "done", !.err = TRUE, !.failures = @ + 1]

\* A comparison that accepts a difference of exactly the tolerance.
WithinOrAtTolerance(integrity, result) == Abs(integrity - result) <= Tolerance
\* Math.abs(integrity - result) < 0.05, line 203
compareVerdict(integrity, result) == Abs(integrity - result) < Tolerance

\* The continuation compare hands to calculate, lines 202-204.
compareDone(call) ==
    [call EXCEPT !.status = "done", !.successes = @ + 1,
                 !.result = compareVerdict(call.integrity, call.score)]

\* The continuation of a direct calculate call.
calculateDone(call) == [call EXCEPT !.status = "done", !.successes = @ + 1]

\* The continuation create hands to calculate, lines 139-155.  Reading
\* ip.length of a request without a remote address throws.
createDone(call, uuid) ==
    IF ~call.request.remoteAddress.def THEN [call EXCEPT !.status = "threw"]
    ELSE LET ip == call.request.remoteAddress.str
             id == deriveIdentifier(call.resourceId, ip, uuidV4(uuid))
             props == mergeProperties(call.properties, call.version, call.score)
         IN  [call EXCEPT !.status = "done", !.successes = @ + 1,
                          !.identifier = id,
                          !.token = createToken(id, props, generator.jwtConfig)]

\* A callback that fits a net to the store as it is when it runs.
RefitInCallback(call, store) == netTrain(store, call.net.seed)
\* The net the callback runs: the one calculate fitted before it asked for
\* the distance (line 228), which the callback closes over.
closureNet(call, store) == call.net

\* The continuation the call was made with.
continue(call, uuid) ==
    CASE call.op = "create" -> createDone(call, uuid)
      [] call.op = "compare" -> compareDone(call)
      [] call.op = "calculate" -> calculateDone(call)

\* done(net.run(data).integrity), line 249
runNet(call, net, data, uuid) ==
    continue([call EXCEPT !.data = data, !.netRuns = @ + 1,
                          !.score = netRun(net, data)], uuid)

\* Lines 242-249, then the caller's continuation.
scoreAndContinue(call, uuid, store) ==
    runNet(call, closureNet(call, store),
           featureData(callbackThis, call.request,
                       getDistance(generator.idealRequestChain, call.chain),
                       call.chain),
           uuid)

\* A callback that calls error and goes on.
ErrorWithoutReturn(call, err, uuid, store) ==
    scoreAndContinue(IF err THEN onFailure(call) ELSE call, uuid, store)
\* The callback of levenshtein.getAsync, lines 237-250.
distanceCallback(call, err, uuid, store) ==
    IF err THEN onFailure(call) ELSE scoreAndContinue(call, uuid, store)

\* An insertion at the front.
Unshift(array, example) == <<example>> \o array
\* this.trainingData.push(example), line 294
push(array, example) == Append(array, example)

\* A test that looks at verify's error alone.
OnlyCodecError(err, decoded) == err
\* The test of decode's callback, lines 175-178: TRUE when error is called.
decodeFails(err, decoded) == err \/ ~Present(decoded.identifier)

-----------------------------------------------------------------------------
(* The state after construction, and the operations.                       *)

NoDecode ==
    [called |-> FALSE, token |-> NoToken, err |-> FALSE, decoded |-> NoPayload,
     successes |-> 0, failures |-> 0, claims |-> NoPayload]

Init ==
    /\ trainingData = testTrainingData
    /\ initialData = trainingData
    /\ submitted = <<>>
    /\ calls = <<>>
    /\ uuids = 0
    /\ lastDecode = NoDecode
    /\ request0 = TestRequest

\* create(request, resourceId, properties, version, done, error), lines 131-156
Create(request, resourceId, properties, version, seed) ==
    /\ calls' = Append(calls, calculateSync("create", request, resourceId, properties,
                                            version, 0, seed, trainingData,
                                            Len(submitted)))
    /\ UNCHANGED <<trainingData, initialData, submitted, uuids, lastDecode, request0>>

\* compare(integrity, request, done, error), lines 201-205
Compare(integrity, request, seed) ==
    /\ calls' = Append(calls, calculateSync("compare", request, NoString, NoProperties,
                                            "", integrity, seed, trainingData,
                                            Len(submitted)))
    /\ UNCHANGED <<trainingData, initialData, submitted, uuids, lastDecode, request0>>

\* calculate(request, done, error), lines 225-251
Calculate(request, seed) ==
    /\ calls' = Append(calls, calculateSync("calculate", request, NoString,
                                            NoProperties, "", 0, seed, trainingData,
                                            Len(submitted)))
    /\ UNCHANGED <<trainingData, initialData, submitted, uuids, lastDecode, request0>>

\* levenshtein.getAsync calls back, lines 237-250, with an error or a distance.
DistanceCallback(c, err) ==
    /\ calls[c].status = "pending"
    /\ calls' = [calls EXCEPT ![c] =
                    [distanceCallback(calls[c], err, uuids, trainingData)
                        EXCEPT !.trainedByCallback = Len(submitted)]]
    /\ uuids' = IF ~err /\ calls[c].op = "create" /\ calls[c].request.remoteAddress.def
                THEN uuids + 1 ELSE uuids
    /\ UNCHANGED <<trainingData, initialData, submitted, lastDecode, request0>>

\* train(userAgent, language, referer, requestData, integrity), lines 293-303
Train(example) ==
    /\ Len(submitted) < MaxTrain
    /\ trainingData' = push(trainingData, example)
    /\ submitted' = Append(submitted, example)
    /\ UNCHANGED <<initialData, calls, uuids, lastDecode, request0>>

\* decode(token, next, error), lines 173-180
Decode(token) ==
    LET v == jwtVerify(token, generator.jwtConfig.secret, generator.jwtConfig)
        fails == decodeFails(v.err, v.decoded)
    IN  /\ lastDecode' = [called |-> TRUE, token |-> token, err |-> v.err,
                          decoded |-> v.decoded,
                          successes |-> IF fails THEN 0 ELSE 1,
                          failures |-> IF fails THEN 1 ELSE 0,
                          claims |-> IF fails THEN NoPayload ELSE v.decoded]
        /\ UNCHANGED <<trainingData, initialData, submitted, calls, uuids, request0>>

\* The tokens decode is given: the tokens create has handed out, each also
\* with its signature altered, and a token signed with the generator's
\* secret by another party that put no identifier in it.
Altered(token) ==
    [token EXCEPT !.signature = hmac("guess", "HS256", token.payload)]
UnidentifiedToken ==
    jwtSign([identifier |-> NoString, properties |-> EmptyMap],
            generator.jwtConfig.secret, generator.jwtConfig)
IssuedTokens ==
    {calls[c].token : c \in {d \in DOMAIN calls : calls[d].successes > 0
                                                   /\ calls[d].op = "create"}}
Tokens ==
    IssuedTokens \cup {Altered(t) : t \in IssuedTokens} \cup {UnidentifiedToken}

Next ==
    \/ /\ Len(calls) < MaxCalls
       /\ \E request \in Requests, resourceId \in ResourceIds,
             properties \in PropertyMaps, version \in Versions :
             Create(request, resourceId, properties, version, 0)
    \/ /\ Len(calls) < MaxCalls
       /\ \E integrity \in Integrities, seed \in Seeds :
             Compare(integrity, TestRequest, seed)
    \/ /\ Len(calls) < MaxCalls
       /\ \E request \in Requests : Calculate(request, 0)
    \/ \E c \in DOMAIN calls, err \in BOOLEAN : DistanceCallback(c, err)
    \/ \E example \in TrainArguments : Train(example)
    \/ \E token \in Tokens : Decode(token)

Spec == Init /\ [][Next]_vars

\* Calls of create alone, with train calls between them: the same request,
\* one of two resource ids, and either outcome of the fit.
PairNext ==
    \/ /\ Len(calls) < MaxPairCalls
       /\ \E resourceId \in ResourceIds, seed \in Seeds :
             Create(TestRequest, resourceId, NoProperties, "1.0", seed)
    \/ \E c \in DOMAIN calls, err \in BOOLEAN : DistanceCallback(c, err)
    \/ \E example \in TrainArguments : Train(example)

PairSpec == Init /\ [][PairNext]_vars

\* The feature tests alone: one request out of FeatureRequests, scored by
\* calculate.
FeatureInit ==
    /\ trainingData = testTrainingData
    /\ initialData = trainingData
    /\ submitted = <<>>
    /\ calls = <<>>
    /\ uuids = 0
    /\ lastDecode = NoDecode
    /\ request0 \in FeatureRequests

FeatureNext ==
    \/ /\ Len(calls) < MaxFeatureCalls
       /\ \E seed \in Seeds : Calculate(request0, seed)
    \/ \E c \in DOMAIN calls, err \in BOOLEAN : DistanceCallback(c, err)

FeatureSpec == FeatureInit /\ [][FeatureNext]_vars

\* Calls of create for a request with or without a remote address, and
\* their callbacks.  levenshtein.getAsync calls back every time it is
\* called: no call's callback is put off for ever.
CreateNext ==
    \/ /\ Len(calls) < MaxPairCalls
       /\ \E request \in Requests, seed \in Seeds :
             Create(request, TestResourceId, NoProperties, "1.0", seed)
    \/ \E c \in DOMAIN calls, err \in BOOLEAN : DistanceCallback(c, err)

CallsBack(c) ==
    c \in DOMAIN calls /\ (DistanceCallback(c, TRUE) \/ DistanceCallback(c, FALSE))

FairSpec ==
    Init /\ [][CreateNext]_vars /\ \A c \in 1 .. MaxPairCalls : WF_vars(CallsBack(c))

-----------------------------------------------------------------------------
(* The properties checked.                                                 *)

CallersMap(call) == IF call.properties.def THEN call.properties.map ELSE EmptyMap
Succeeded(c) == calls[c].status = "done" /\ calls[c].successes > 0
CreateWithAddress(c) ==
    c \in DOMAIN calls /\ calls[c].op = "create" /\ calls[c].request.remoteAddress.def
DecodedTokenOf(c) ==
    calls[c].op = "create" /\ Succeeded(c) /\ lastDecode.called
                           /\ lastDecode.token = calls[c].token
SnapshotOf(call) == initialData \o SubSeq(submitted, 1, call.trainedBefore)

CompareTrueIffWithinTolerance ==
    \A c \in DOMAIN calls : (calls[c].op = "compare" /\ Succeeded(c)) =>
        (calls[c].result <=> /\ calls[c].integrity - calls[c].score < 50
                             /\ calls[c].score - calls[c].integrity < 50)

\* C2 witness: a compare whose integrity is exactly 0.05 from the score has
\* reported FALSE.
CompareAtToleranceIsFalse ==
    \E c \in DOMAIN calls :
        /\ calls[c].op = "compare" /\ Succeeded(c)
        /\ calls[c].score - calls[c].integrity = 50
        /\ ~calls[c].result

DecodeFailsWithoutIdentifier ==
    lastDecode.called =>
        /\ lastDecode.successes + lastDecode.failures = 1
        /\ (lastDecode.err \/ ~Present(lastDecode.decoded.identifier)) =>
              (lastDecode.failures = 1 /\ lastDecode.successes = 0
                                       /\ lastDecode.claims = NoPayload)
        /\ lastDecode.successes = 1 =>
              /\ ~lastDecode.err
              /\ lastDecode.token.signature =
                    hmac("test", "HS256", lastDecode.token.payload)
              /\ Present(lastDecode.claims.identifier)

\* C4 witness: a token that verifies and has no identifier has been refused.
UnidentifiedTokenRefused ==
    /\ lastDecode.called
    /\ ~lastDecode.err
    /\ ~Present(lastDecode.decoded.identifier)
    /\ lastDecode.failures = 1

FeaturesInUnitInterval ==
    \A c \in DOMAIN calls : Succeeded(c) =>
        /\ InUnitInterval(calls[c].data.userAgent)
        /\ InUnitInterval(calls[c].data.language)
        /\ InUnitInterval(calls[c].data.referer)
        /\ InUnitInterval(calls[c].data.requestData)
        /\ ~Truthy(calls[c].request.userAgent) => FracEq(calls[c].data.userAgent, Zero)
        /\ ~Truthy(calls[c].request.acceptLanguage) =>
              FracEq(calls[c].data.language, Zero)
        /\ ~Truthy(calls[c].request.referer) => FracEq(calls[c].data.referer, Zero)

\* C7: the net of a scoring call is fitted to the store as it was when the
\* call was made, all of every example trained by then and nothing trained
\* later, and the score its continuation gets is that net's.
ScoreIsOfTheSnapshot ==
    \A c \in DOMAIN calls :
        /\ calls[c].trainedBefore <= Len(submitted)
        /\ calls[c].net.examples = SnapshotOf(calls[c])
        /\ Succeeded(c) =>
              calls[c].score =
                  netRun(netTrain(SnapshotOf(calls[c]), calls[c].net.seed),
                         calls[c].data)

\* C7 witness: a call has been scored after a train call that ran while its
\* callback was pending.
ScoredAfterTrainWhilePending ==
    \E c \in DOMAIN calls :
        Succeeded(c) /\ calls[c].trainedBefore < calls[c].trainedByCallback

\* C8, as stated: two create calls with the same request and resource id
\* hand out different identifiers and sign the same integrity.
SameInputsSameIntegrity ==
    \A c, d \in DOMAIN calls :
        (/\ c # d /\ Succeeded(c) /\ Succeeded(d)
         /\ calls[c].op = "create" /\ calls[d].op = "create"
         /\ calls[c].request = calls[d].request
         /\ calls[c].resourceId = calls[d].resourceId) =>
            /\ calls[c].identifier # calls[d].identifier
            /\ calls[c].score = calls[d].score

\* C8, amended: two such calls hand out different identifiers and score the
\* same feature vector, and sign the same integrity when their nets were
\* fitted to the same examples with the same initialisation.
SameInputsSameFeatures ==
    \A c, d \in DOMAIN calls :
        (/\ c # d /\ Succeeded(c) /\ Succeeded(d)
         /\ calls[c].op = "create" /\ calls[d].op = "create"
         /\ calls[c].request = calls[d].request
         /\ calls[c].resourceId = calls[d].resourceId) =>
            /\ calls[c].identifier # calls[d].identifier
            /\ calls[c].data = calls[d].data
            /\ calls[c].net = calls[d].net => calls[c].score = calls[d].score

\* C8 witness: two create calls with the same inputs have succeeded, with a
\* train call between them.
TwoCreatesAroundTrain ==
    \E c, d \in DOMAIN calls :
        /\ c # d /\ Succeeded(c) /\ Succeeded(d)
        /\ calls[c].op = "create" /\ calls[d].op = "create"
        /\ calls[c].request = calls[d].request
        /\ calls[c].resourceId = calls[d].resourceId
        /\ calls[c].trainedBefore < calls[d].trainedBefore

\* C9, as stated: the userAgent and language handed to the net are the ones
\* the generator's bot, browser and language patterns give.
FeaturesUseGeneratorPatterns ==
    \A c \in DOMAIN calls : Succeeded(c) =>
        /\ FracEq(calls[c].data.userAgent,
                  userAgentTest(calls[c].request.userAgent, generator.botMatch,
                                generator.browserMatch))
        /\ FracEq(calls[c].data.language,
                  evaluateLanguage(calls[c].request.acceptLanguage,
                                   generator.languageMatch))

\* C10, as stated: the chain is the six fields, the first four cut to 5, 32,
\* 32 and 16 characters, each followed by the delimiter, a missing field
\* standing as the empty string.
ChainOfMissingFieldsIsEmpty ==
    \A c \in DOMAIN calls :
        LET r == calls[c].request
            field(v, n) == IF v.def THEN Substr0(v.str, n) ELSE blank
            whole(v) == IF v.def THEN v.str ELSE blank
        IN  calls[c].chain =
                   field(r.httpVersion, 5) \o generator.delimit
                \o field(r.acceptEncoding, 32) \o generator.delimit
                \o field(r.contentType, 32) \o generator.delimit
                \o field(r.connection, 16) \o generator.delimit
                \o whole(r.remoteFamily) \o generator.delimit
                \o whole(r.remotePort) \o generator.delimit

=============================================================================
